---- MODULE Spec2Model ----
(***************************************************************************)
(* UmbrellaChain (gymnax/environments/bsuite/umbrella_chain.py).           *)
(*                                                                         *)
(* The environment object holds only n_distractor; EnvState is threaded by *)
(* the caller through reset_env and step_env.  The model keeps the last    *)
(* call and what it returned, so that every claim about "the values        *)
(* returned by a call" is a predicate on the state, and a claim about two  *)
(* consecutive calls is an action property.                                *)
(*                                                                         *)
(* Randomness.  jax.random.split and jax.random.bernoulli are pure         *)
(* functions of the key.  A key is modelled by the path that derived it,   *)
(* and the Bernoulli draws by an arbitrary function prng from draw sites   *)
(* <<key, index>> to {0,1}.  The function is fixed for a whole behaviour   *)
(* but revealed lazily: a site gets its value the first time it is drawn   *)
(* and keeps it (the same key always gives the same draw).  A behaviour is *)
(* one episode: reset_env is called once, its sites are disjoint from the  *)
(* sites of step_env and are drawn exactly once, so only the draws of      *)
(* step_env are remembered in prng.                                        *)
(***************************************************************************)
EXTENDS Integers, Sequences, FiniteSets, TLC

\* ---- bounds of the model ----
MaxChainLength == 3        \* params.chain_length ranges over 1..MaxChainLength
MaxStepsInEpisode == 3     \* params.max_steps_in_episode over 1..MaxStepsInEpisode
MaxDistractor == 1         \* n_distractor ranges over 0..MaxDistractor
MaxTime == 5               \* step_env is called while state.time < MaxTime

\* ---- inputs ----
Keys == {0, 1}             \* the PRNG keys a caller passes
Actions == {-1, 0, 1, 2}   \* 0 and 1 are the action space; -1 and 2 are out of range

VARIABLES
    params,         \* EnvParams passed to every call
    n_distractor,   \* UmbrellaChain.n_distractor
    prng,           \* draw site -> bit, for the step_env sites drawn so far
    op,             \* last call: "none", "reset" or "step"
    key,            \* the key given to the last call
    state,          \* the EnvState returned by the last call
    obs,            \* the observation returned by the last call
    reward,         \* the reward returned by the last step
    done,           \* the done flag returned by the last step
    info,           \* the info dict returned by the last step
    first_action,   \* <<a>>: the action given to the step taken at time 0
    nsteps,         \* number of step calls since reset
    past_done,      \* an earlier step of this episode already returned done
    drawn,          \* the keys the last call handed to bernoulli, in order
    twin            \* what a second run of the episode returned at this step

vars == <<params, n_distractor, prng, op, key, state, obs, reward, done, info,
          first_action, nsteps, past_done, drawn, twin>>

\* ---- data ----
EnvState(need_umbrella, has_umbrella, total_regret, time) ==
    [need_umbrella |-> need_umbrella, has_umbrella |-> has_umbrella,
     total_regret |-> total_regret, time |-> time]

EnvParams(chain_length, max_steps_in_episode) ==
    [chain_length |-> chain_length, max_steps_in_episode |-> max_steps_in_episode]

\* a Python/jnp boolean used as a number
BoolToInt(b) == IF b THEN 1 ELSE 0

\* jnp.logical_and of a boolean and a number: the number is truthy iff non-zero
logical_and(b, x) == b /\ (x # 0)

\* a / b (true division) and 1 - r, kept exact as a fraction
TrueDiv(a, b) == [num |-> a, den |-> b]
OneMinus(r) == [num |-> r.den - r.num, den |-> r.den]
RatIsZero(r) == r.num = 0
RatInUnit(r) == IF r.den > 0 THEN 0 <= r.num /\ r.num <= r.den
                ELSE r.den < 0 /\ 0 >= r.num /\ r.num >= r.den

\* ---- randomness ----
\* jax.random.split(key, n): n child keys, each named by its derivation
split(k, n) == [i \in 1..n |-> <<k, n, i>>]

\* sites drawn by bernoulli(key, shape=()) and bernoulli(key, shape=(n,))
ScalarSite(k) == <<k, 0>>
VectorSites(k, n) == {<<k, i>> : i \in 1..n}

bernoulli(rng, k) == rng[ScalarSite(k)]
bernoulli_vec(rng, k, n) == [i \in 1..n |-> rng[<<k, i>>]]

\* ---- UmbrellaChain ----
\* mutants of is_terminal: the horizon tested with = ; the horizon tested
\* with > ; the chain tested one step early
is_terminal_exact_horizon(s, p) ==
    s.time = p.max_steps_in_episode \/ s.time = p.chain_length

is_terminal_late_horizon(s, p) ==
    s.time > p.max_steps_in_episode \/ s.time = p.chain_length

is_terminal_early_chain(s, p) ==
    s.time >= p.max_steps_in_episode \/ s.time + 1 = p.chain_length

is_terminal(s, p) ==
    LET done_steps == s.time >= p.max_steps_in_episode
        done_chain == s.time = p.chain_length
    IN  done_steps \/ done_chain

discount(s, p) == IF is_terminal(s, p) THEN 0 ELSE 1

\* mutant of time_left: the elapsed fraction instead of the remaining one
time_left_elapsed(s, p) == TrueDiv(s.time, p.chain_length)

time_left(s, p) == OneMinus(TrueDiv(s.time, p.chain_length))

get_obs(s, k, p, nd, rng) ==
    <<s.need_umbrella, s.has_umbrella, time_left(s, p)>> \o bernoulli_vec(rng, k, nd)

\* mutants of select_umbrella: the action taken one step late; the action
\* clamped to a bit
select_umbrella_late(s, action) ==
    IF s.time = 1 THEN action ELSE s.has_umbrella

select_umbrella_clamped(s, action) ==
    IF s.time + 1 = 1 THEN BoolToInt(action # 0) ELSE s.has_umbrella

\* mutant of select_umbrella: the action is taken at every step
select_umbrella_always(s, action) == action

select_umbrella(s, action) ==
    IF s.time + 1 = 1 THEN action ELSE s.has_umbrella

\* mutant of chain_is_full: full at every step from chain_length on
chain_is_full_onward(s, p) == s.time + 1 >= p.chain_length

chain_is_full(s, p) == s.time + 1 = p.chain_length

chain_reward(s, p, has_umbrella) ==
    LET chain_full == chain_is_full(s, p)
        has_need == has_umbrella = s.need_umbrella
    IN  0 + BoolToInt(logical_and(chain_full, BoolToInt(has_need)))
          - BoolToInt(logical_and(chain_full, 1 - BoolToInt(has_need)))

\* mutant of regret: regret added at every chain-full step, match or not
regret_any_full(s, p, has_umbrella) ==
    s.total_regret + 2 * BoolToInt(chain_is_full(s, p))

regret(s, p, has_umbrella) ==
    LET chain_full == chain_is_full(s, p)
        has_need == has_umbrella = s.need_umbrella
    IN  s.total_regret + 2 * BoolToInt(logical_and(chain_full, 1 - BoolToInt(has_need)))

\* mutant of step_keys: the reward key reused for the observation
step_keys_reused(k) ==
    [key_reward |-> split(k, 2)[1], key_distractor |-> split(k, 2)[1]]

\* key_reward, key_distractor = jax.random.split(key)
step_keys(k) ==
    [key_reward |-> split(k, 2)[1], key_distractor |-> split(k, 2)[2]]

\* mutant of noise_reward: the noise is not masked on the chain-full step
noise_reward_unmasked(s, p, k, rng) ==
    2 * bernoulli(rng, step_keys(k).key_reward) - 1

noise_reward(s, p, k, rng) ==
    LET key_reward == step_keys(k).key_reward
        random_rew == 2 * bernoulli(rng, key_reward) - 1
    IN  (1 - BoolToInt(chain_is_full(s, p))) * random_rew

step_sites(k, nd) ==
    {ScalarSite(step_keys(k).key_reward)}
        \cup VectorSites(step_keys(k).key_distractor, nd)

\* the keys step_env hands to jax.random.bernoulli, in call order
step_draws(k) == <<step_keys(k).key_reward, step_keys(k).key_distractor>>

\* mutant of step_env: the observation rendered from the input state
step_env_prior_obs(k, s, action, p, nd, rng) ==
    LET has_umbrella == select_umbrella(s, action)
        rew == chain_reward(s, p, has_umbrella) + noise_reward(s, p, k, rng)
        key_distractor == step_keys(k).key_distractor
        next == EnvState(s.need_umbrella, has_umbrella,
                         regret(s, p, has_umbrella), s.time + 1)
    IN  [obs |-> get_obs(s, key_distractor, p, nd, rng),
         state |-> next,
         reward |-> rew,
         done |-> is_terminal(next, p),
         info |-> [discount |-> discount(next, p)]]

\* mutant of step_env: time is not advanced from a terminal state
step_env_stop_at_done(k, s, action, p, nd, rng) ==
    LET has_umbrella == select_umbrella(s, action)
        rew == chain_reward(s, p, has_umbrella) + noise_reward(s, p, k, rng)
        key_distractor == step_keys(k).key_distractor
        next == EnvState(s.need_umbrella, has_umbrella,
                         regret(s, p, has_umbrella),
                         IF is_terminal(s, p) THEN s.time ELSE s.time + 1)
    IN  [obs |-> get_obs(next, key_distractor, p, nd, rng),
         state |-> next,
         reward |-> rew,
         done |-> is_terminal(next, p),
         info |-> [discount |-> discount(next, p)]]

\* mutant of step_env: the discount evaluated on the input state
step_env_prior_discount(k, s, action, p, nd, rng) ==
    LET has_umbrella == select_umbrella(s, action)
        rew == chain_reward(s, p, has_umbrella) + noise_reward(s, p, k, rng)
        key_distractor == step_keys(k).key_distractor
        next == EnvState(s.need_umbrella, has_umbrella,
                         regret(s, p, has_umbrella), s.time + 1)
    IN  [obs |-> get_obs(next, key_distractor, p, nd, rng),
         state |-> next,
         reward |-> rew,
         done |-> is_terminal(next, p),
         info |-> [discount |-> discount(s, p)]]

step_env(k, s, action, p, nd, rng) ==
    LET has_umbrella == select_umbrella(s, action)
        rew == chain_reward(s, p, has_umbrella) + noise_reward(s, p, k, rng)
        key_distractor == step_keys(k).key_distractor
        next == EnvState(s.need_umbrella, has_umbrella,
                         regret(s, p, has_umbrella), s.time + 1)
    IN  [obs |-> get_obs(next, key_distractor, p, nd, rng),
         state |-> next,
         reward |-> rew,
         done |-> is_terminal(next, p),
         info |-> [discount |-> discount(next, p)]]

\* key_need, key_has, key_distractor = jax.random.split(key, 3)
reset_keys(k) ==
    [key_need |-> split(k, 3)[1], key_has |-> split(k, 3)[2],
     key_distractor |-> split(k, 3)[3]]

reset_sites(k, nd) ==
    {ScalarSite(reset_keys(k).key_need), ScalarSite(reset_keys(k).key_has)}
        \cup VectorSites(reset_keys(k).key_distractor, nd)

\* the keys reset_env hands to jax.random.bernoulli, in call order
reset_draws(k) ==
    <<reset_keys(k).key_need, reset_keys(k).key_has, reset_keys(k).key_distractor>>

reset_env(k, p, nd, rng) ==
    LET key_need == reset_keys(k).key_need
        key_has == reset_keys(k).key_has
        key_distractor == reset_keys(k).key_distractor
        need_umbrella == bernoulli(rng, key_need)
        has_umbrella == bernoulli(rng, key_has)
        s == EnvState(need_umbrella, has_umbrella, 0, 0)
    IN  [obs |-> get_obs(s, key_distractor, p, nd, rng), state |-> s]

\* ---- the state machine ----
\* prng extended by a value for every site of S not drawn before
Draws(S) == {f @@ prng : f \in [S \ DOMAIN prng -> {0, 1}]}

Init ==
    /\ params \in {EnvParams(c, m) : c \in 1..MaxChainLength, m \in 1..MaxStepsInEpisode}
    /\ n_distractor \in 0..MaxDistractor
    /\ prng = << >>
    /\ op = "none"
    /\ key = 0
    /\ state = EnvState(0, 0, 0, 0)
    /\ obs = << >>
    /\ reward = 0
    /\ done = FALSE
    /\ info = [discount |-> 1]
    /\ first_action = << >>
    /\ nsteps = 0
    /\ past_done = FALSE
    /\ drawn = << >>
    /\ twin = [obs |-> << >>, state |-> EnvState(0, 0, 0, 0), reward |-> 0,
               done |-> FALSE, info |-> [discount |-> 1]]

Reset(k) ==
    /\ op = "none"
    /\ \E rng \in [reset_sites(k, n_distractor) -> {0, 1}] :
         LET r == reset_env(k, params, n_distractor, rng)
         IN  /\ obs' = r.obs
             /\ state' = r.state
    /\ op' = "reset"
    /\ key' = k
    /\ drawn' = reset_draws(k)
    /\ UNCHANGED <<params, n_distractor, prng, reward, done, info,
                   first_action, nsteps, past_done>>

Step(k, action) ==
    /\ op # "none"
    /\ state.time < MaxTime
    /\ \E rng \in Draws(step_sites(k, n_distractor)) :
         LET r == step_env(k, state, action, params, n_distractor, rng)
         IN  /\ prng' = rng
             /\ obs' = r.obs
             /\ state' = r.state
             /\ reward' = r.reward
             /\ done' = r.done
             /\ info' = r.info
    /\ op' = "step"
    /\ key' = k
    /\ drawn' = step_draws(k)
    /\ first_action' = IF state.time = 0 THEN <<action>> ELSE first_action
    /\ nsteps' = nsteps + 1
    /\ past_done' = (past_done \/ (op = "step" /\ done))
    /\ UNCHANGED <<params, n_distractor>>

\* one run of the episode: the second run is not started
ResetOne(k) == Reset(k) /\ UNCHANGED twin

StepOne(k, action) == Step(k, action) /\ UNCHANGED twin

Next ==
    \/ \E k \in Keys : ResetOne(k)
    \/ \E k \in Keys, action \in Actions : StepOne(k, action)

Spec == Init /\ [][Next]_vars

\* ---- two runs of one episode, side by side ----
\* Both runs start from the state returned by the same reset_env call and
\* give every step_env call the same key.  They give the same action to the
\* step taken at time 0; at every later step the second run is given an
\* action different from the first run's (the next one of Actions, cyclically),
\* so that every action is compared with another one at every later step.
Returned == [obs |-> obs, state |-> state, reward |-> reward,
             done |-> done, info |-> info]

OtherAction(action) ==
    IF action + 1 \in Actions THEN action + 1
    ELSE CHOOSE a \in Actions : \A b \in Actions : a <= b

ResetPair(k) ==
    /\ Reset(k)
    /\ twin' = [twin EXCEPT !.obs = obs', !.state = state']

StepPair(k, action) ==
    /\ Step(k, action)
    /\ LET action2 == IF state.time = 0 THEN action ELSE OtherAction(action)
       IN  twin' = step_env(k, twin.state, action2, params, n_distractor, prng')

NextPair ==
    \/ \E k \in Keys : ResetPair(k)
    \/ \E k \in Keys, action \in Actions : StepPair(k, action)

SpecPair == Init /\ [][NextPair]_vars

\* ---- declared spaces ----
Discrete(n) == 0..(n - 1)

state_space(p) ==
    [need_umbrella |-> Discrete(2),
     has_umbrella |-> Discrete(2),
     total_regret |-> Discrete(1000),
     time |-> Discrete(p.max_steps_in_episode)]

\* ---- helpers of the properties ----
Min(a, b) == IF a <= b THEN a ELSE b
EpisodeLength == Min(params.chain_length, params.max_steps_in_episode)
ValidFirstAction == first_action \in {<< >>, <<0>>, <<1>>}

\* C1 (as stated): once a step has returned done = TRUE, every later step
\* that continues from the returned state returns done = TRUE.
C1_DoneAbsorbing ==
    [][(op = "step" /\ done /\ op' = "step") => done']_vars

\* C1 (amended): a step that continues from a state returned with done = TRUE
\* returns done = TRUE exactly when the input time + 1 has reached
\* max_steps_in_episode; done is absorbing from time >= max_steps_in_episode
\* on, and a done caused by time = chain_length alone is followed by FALSE.
C1_DoneAfterDone ==
    [][(op = "step" /\ done /\ op' = "step")
         => (done' <=> state.time + 1 >= params.max_steps_in_episode)]_vars

C1_Witness ==
    /\ op = "step" /\ past_done /\ done
    /\ state.time > params.max_steps_in_episode

\* C2: from a reset state, done is FALSE at every step whose resulting time
\* is below min(chain_length, max_steps_in_episode) and TRUE at the step whose
\* resulting time equals it; the first done comes after exactly that many steps.
C2_FirstDoneAtEpisodeLength ==
    op = "step" =>
        /\ nsteps = state.time
        /\ (state.time < EpisodeLength => ~done)
        /\ (state.time = EpisodeLength => done)
        /\ ((done /\ ~past_done) => nsteps = EpisodeLength)

C2_Witness ==
    /\ op = "step" /\ done /\ ~past_done
    /\ nsteps = EpisodeLength
    /\ params.max_steps_in_episode < params.chain_length

\* C3: if the action of the step taken at time 0 equals need_umbrella, the
\* reward of the chain_length-th step is +1 and total_regret is 0 after that
\* step and after every earlier one.
C3_MatchRewardPlusOne ==
    (op = "step" /\ first_action = <<state.need_umbrella>>) =>
        /\ (state.time <= params.chain_length => state.total_regret = 0)
        /\ (state.time = params.chain_length => reward = 1)

C3_Witness ==
    /\ op = "step" /\ first_action = <<state.need_umbrella>>
    /\ params.chain_length >= 2
    /\ state.time = params.chain_length
    /\ reward = 1

\* C4: if the action in {0,1} of the step taken at time 0 differs from
\* need_umbrella, the reward of the chain_length-th step is -1, total_regret
\* goes from 0 to 2 at that step and stays 2 after any further steps.
C4_MismatchRegretTwo ==
    (op = "step" /\ first_action \in {<<0>>, <<1>>}
                 /\ first_action # <<state.need_umbrella>>) =>
        /\ (state.time < params.chain_length => state.total_regret = 0)
        /\ (state.time = params.chain_length => reward = -1)
        /\ (state.time >= params.chain_length => state.total_regret = 2)

C4_Witness ==
    /\ op = "step" /\ first_action \in {<<0>>, <<1>>}
    /\ first_action # <<state.need_umbrella>>
    /\ state.time > params.chain_length + 1
    /\ state.total_regret = 2

\* C6: the state returned by reset has time = 0 and total_regret = 0,
\* need_umbrella and has_umbrella in {0,1}, and is not terminal.
C6_ResetState ==
    op = "reset" =>
        /\ state.time = 0
        /\ state.total_regret = 0
        /\ state.need_umbrella \in {0, 1}
        /\ state.has_umbrella \in {0, 1}
        /\ ~is_terminal(state, params)

C6_Witness ==
    /\ op = "reset"
    /\ state.need_umbrella = 1 /\ state.has_umbrella = 0
    /\ params.chain_length = 1 /\ params.max_steps_in_episode = 1

\* C7 (as stated): in every observation returned by reset or step, entry 2
\* equals 1 - time/chain_length of the returned state, lies in [0,1], and is 0
\* exactly when time = chain_length.
C7_TimeLeftInUnit ==
    (op # "none" /\ ValidFirstAction) =>
        /\ obs[3] = [num |-> params.chain_length - state.time,
                     den |-> params.chain_length]
        /\ RatInUnit(obs[3])
        /\ (RatIsZero(obs[3]) <=> state.time = params.chain_length)

\* C7 (amended): entry 2 equals 1 - time/chain_length of the returned state
\* and is 0 exactly when time = chain_length; it lies in [0,1] exactly when
\* time <= chain_length, and is negative in every observation returned by a
\* step that continues past time = chain_length.
C7_TimeLeftInUnitUpToChain ==
    op # "none" =>
        /\ obs[3] = [num |-> params.chain_length - state.time,
                     den |-> params.chain_length]
        /\ (RatInUnit(obs[3]) <=> state.time <= params.chain_length)
        /\ (state.time > params.chain_length => obs[3].num < 0)
        /\ (RatIsZero(obs[3]) <=> state.time = params.chain_length)

C7_Witness ==
    /\ op = "step" /\ state.time = params.chain_length
    /\ params.chain_length >= 2
    /\ RatIsZero(obs[3])

\* C8: every observation has length 3 + n_distractor; entry 0 is
\* need_umbrella and entry 1 is has_umbrella of the state returned by the same
\* call, both in {0,1} for actions in {0,1}; every distractor entry is in {0,1}.
C8_ObservationOfReturnedState ==
    op # "none" =>
        /\ Len(obs) = 3 + n_distractor
        /\ obs[1] = state.need_umbrella
        /\ obs[2] = state.has_umbrella
        /\ (ValidFirstAction => (obs[1] \in {0, 1} /\ obs[2] \in {0, 1}))
        /\ \A i \in 4..Len(obs) : obs[i] \in {0, 1}

C8_Witness ==
    /\ op = "step" /\ state.time = 1
    /\ n_distractor >= 1
    /\ first_action = <<1>> /\ obs[2] = 1
    /\ obs[4] = 1

\* C9 (as stated): an action outside {0,1} at time 0 acts as a carry bit: a
\* non-zero action behaves like action 1 (it matches need_umbrella = 1: final
\* reward +1, no regret, has_umbrella stays in {0,1}).
C9_ActionIsCarryBit ==
    (op = "step" /\ first_action # << >> /\ first_action[1] \notin {0, 1}) =>
        /\ state.has_umbrella \in {0, 1}
        /\ (state.need_umbrella = 1 /\ state.time = params.chain_length
               => (reward = 1 /\ state.total_regret = 0))

\* C9 (amended): an action outside {0,1} at time 0 is accepted and stored
\* unchanged as has_umbrella; it matches neither value of need_umbrella, so
\* the chain_length-th step returns reward -1 and total_regret 2 whatever
\* need_umbrella is.  A zero action is stored as 0.
C9_ActionStoredVerbatim ==
    (op = "step" /\ first_action # << >>) =>
        /\ state.has_umbrella = first_action[1]
        /\ (first_action[1] \notin {0, 1} /\ state.time = params.chain_length
               => (reward = -1 /\ state.total_regret = 2))

C9_Witness ==
    /\ op = "step" /\ first_action = <<2>>
    /\ state.need_umbrella = 1
    /\ state.time = params.chain_length
    /\ reward = -1 /\ state.total_regret = 2

\* C10: every state of an episode, from the reset state up to and including
\* the first state returned with done = TRUE, lies inside state_space(params),
\* for actions in {0,1}.
C10_StateInStateSpace ==
    (op # "none" /\ ~past_done /\ ValidFirstAction) =>
        \A f \in DOMAIN state_space(params) : state[f] \in state_space(params)[f]

\* the +1/-1 noise drawn from the reward sub-key of key k
NoiseOf(rng, k) == 2 * rng[ScalarSite(step_keys(k).key_reward)] - 1

Range(f) == {f[i] : i \in DOMAIN f}

\* C11: every step returns a state whose time is the input time + 1, whatever
\* the action, key and params and also from a terminal input state; along a
\* step sequence time never decreases and never skips a value.
C11_TimeAdvancesByOne ==
    [][op' = "step" => (state'.time = state.time + 1 /\ nsteps' = state'.time)]_vars

C11_Witness ==
    /\ op = "step" /\ past_done
    /\ state.time = EpisodeLength + 2

\* C12: along a step sequence need_umbrella keeps the value sampled at reset;
\* has_umbrella becomes the action in the step whose input time is 0 and is
\* left unchanged by every step whose input time is >= 1.
C12_UmbrellaFrame ==
    [][op' = "step" =>
         /\ state'.need_umbrella = state.need_umbrella
         /\ (state.time = 0 => state'.has_umbrella = first_action'[1])
         /\ (state.time >= 1 => state'.has_umbrella = state.has_umbrella)]_vars

C12_Witness ==
    /\ op = "step" /\ state.time >= 3
    /\ first_action = <<0>>
    /\ state.has_umbrella = 0 /\ state.need_umbrella = 1

\* C13: a step adds 2 to total_regret if the input time + 1 = chain_length
\* and the carried has_umbrella differs from need_umbrella, and leaves it
\* unchanged otherwise; total_regret never decreases, is even and at most 2.
C13_RegretRule ==
    [][op' = "step" =>
         /\ state'.total_regret =
              IF /\ state.time + 1 = params.chain_length
                 /\ state'.has_umbrella # state.need_umbrella
              THEN state.total_regret + 2
              ELSE state.total_regret
         /\ state'.total_regret >= state.total_regret
         /\ state'.total_regret \in {0, 2}]_vars

C13_Witness ==
    /\ op = "step" /\ state.total_regret = 2
    /\ first_action = <<-1>>
    /\ state.time = params.chain_length + 1

\* C15: every reward of step is +1 or -1.  On a step that does not complete
\* the chain the reward is the draw from the reward sub-key mapped to +1/-1
\* (whatever the action, need_umbrella and has_umbrella) and total_regret is
\* unchanged; on the step that completes the chain the reward is decided by
\* has_umbrella = need_umbrella alone, not by the key.
C15_RewardRule ==
    [][op' = "step" =>
         /\ reward' \in {-1, 1}
         /\ (state.time + 1 # params.chain_length =>
               /\ reward' = NoiseOf(prng', key')
               /\ state'.total_regret = state.total_regret)
         /\ (state.time + 1 = params.chain_length =>
               reward' = IF state'.has_umbrella = state.need_umbrella
                         THEN 1 ELSE -1)]_vars

C15_Witness ==
    /\ op = "step" /\ state.time = params.chain_length
    /\ reward = 1
    /\ NoiseOf(prng, key) = -1

\* C16: for every step, info.discount is 0 if and only if the done flag of
\* the same call is TRUE, and 1 otherwise; both are evaluated on the returned
\* state.
C16_DiscountIffDone ==
    op = "step" =>
        /\ done = is_terminal(state, params)
        /\ (info.discount = 0 <=> done)
        /\ (~done => info.discount = 1)

C16_Witness ==
    /\ op = "step" /\ done /\ ~past_done
    /\ info.discount = 0

\* C17: with chain_length = 1 the first step after reset sets has_umbrella to
\* the action and completes the chain: done is TRUE, and reward is +1 with
\* total_regret 0 if the action equals need_umbrella, -1 with total_regret 2
\* otherwise.
C17_ChainOfOne ==
    (op = "step" /\ params.chain_length = 1 /\ state.time = 1) =>
        /\ done
        /\ state.has_umbrella = first_action[1]
        /\ IF first_action = <<state.need_umbrella>>
           THEN reward = 1 /\ state.total_regret = 0
           ELSE reward = -1 /\ state.total_regret = 2

C17_Witness ==
    /\ op = "step" /\ params.chain_length = 1 /\ state.time = 1
    /\ params.max_steps_in_episode > 1
    /\ first_action = <<1>> /\ state.need_umbrella = 0
    /\ reward = -1 /\ NoiseOf(prng, key) = 1

\* C18: within one reset and within one step, every Bernoulli sampling site
\* draws from its own child key obtained by splitting the call's key; no key
\* is used for two draws and the call's key itself is used for none.
C18_OneKeyPerDraw ==
    op # "none" =>
        /\ Len(drawn) = IF op = "reset" THEN 3 ELSE 2
        /\ \A i, j \in DOMAIN drawn : i # j => drawn[i] # drawn[j]
        /\ \A i \in DOMAIN drawn : drawn[i] \in Range(split(key, Len(drawn)))
        /\ \A i \in DOMAIN drawn : drawn[i][1] = key

C18_Witness ==
    /\ op = "step" /\ n_distractor >= 1
    /\ Len(drawn) = 2 /\ drawn[1] # drawn[2]
    /\ obs[4] # (reward + 1) \div 2

\* C19: when max_steps_in_episode < chain_length the episode ends at
\* time = max_steps_in_episode, before the chain completes: every reward of
\* the episode is a noise draw, total_regret is 0 in every state of the
\* episode, and entry 2 of every observation of the episode is > 0.
C19_HorizonBeforeChain ==
    (op # "none" /\ ~past_done
        /\ params.max_steps_in_episode < params.chain_length) =>
        /\ state.time <= params.max_steps_in_episode
        /\ state.total_regret = 0
        /\ obs[3].num > 0 /\ obs[3].den > 0
        /\ (op = "step" =>
              /\ reward = NoiseOf(prng, key)
              /\ (done <=> state.time = params.max_steps_in_episode))

C19_Witness ==
    /\ op = "step" /\ done /\ ~past_done
    /\ params.max_steps_in_episode < params.chain_length
    /\ state.time = params.max_steps_in_episode
    /\ first_action # << >> /\ first_action # <<state.need_umbrella>>

\* C14: actions given to steps whose input time is >= 1 have no effect: two
\* step sequences from the same reset state, with the same keys and the same
\* action at time 0 but different later actions, return the same observation,
\* state, reward, done flag and discount at every step.
C14_LaterActionsIgnored ==
    op = "step" => twin = Returned

C14_Witness ==
    /\ op = "step"
    /\ state.time >= 3
    /\ first_action = <<1>> /\ twin.state.has_umbrella = 1
    /\ twin = Returned
    /\ n_distractor >= 1
====
